---- MODULE Spec2Model ----
(***************************************************************************)
(* The simulation kernel of perfdevs/sim.py: SimulationClock, Simulator    *)
(* and the sequential Coordinator with its drivers (simulate,              *)
(* simulate_time, simulate_inf) and inject.                                *)
(*                                                                         *)
(* Times are integers with two sentinels: INFINITY (float("inf")) and NaN  *)
(* (inf - inf).  The arithmetic and the comparisons below follow IEEE      *)
(* floats on these values; rounding is not modelled.                       *)
(***************************************************************************)
EXTENDS Integers, Sequences, FiniteSets, TLC

VARIABLES
    model,           \* which Coupled model was handed to Coordinator(...)
    clock,           \* SimulationClock.time
    time_last,       \* processor -> time_last
    time_next,       \* processor -> time_next
    sigma,           \* atomic -> Atomic.sigma
    ports,           \* port -> Port.values
    coordinators,    \* coordinator -> list of child coordinators
    simulators,      \* coordinator -> list of child simulators
    ports_to_serve,  \* coordinator -> dict name -> port
    pc,              \* where the caller of the root coordinator is
    cont,            \* simulate: loop counter
    num_iters,       \* simulate: argument
    tf,              \* simulate_time: end time
    call,            \* the last call of the root's API and what it returned
    log,             \* the calls made by the last cycle, in order
    cls,             \* the class of the root coordinator
    kwargs,          \* the keyword arguments its constructor was called with
    pool,            \* atomic -> number of its deltfcn tasks submitted and not yet run
    todo,            \* the steps of the root's deltfcn that are still to run
    int_count,       \* atomic -> DelayedAtomic.int_count
    ext_count        \* atomic -> DelayedAtomic.ext_count

vars == <<model, clock, time_last, time_next, sigma, ports, coordinators,
          simulators, ports_to_serve, pc, cont, num_iters, tf, call, log,
          cls, kwargs, pool, todo, int_count, ext_count>>

\* what the sequential kernel with caller-defined atomics never writes
extra == <<cls, kwargs, pool, todo, int_count, ext_count>>

----------------------------------------------------------------------------
(* Bounds of the model *)

MaxTime == 1
MaxSigma == 2
MaxE == 1
MaxCycles == 3
MaxPending == 1

\* the arguments the drivers are called with
NumIters == {0, 2}
TimeIntervs == {0, 1}

----------------------------------------------------------------------------
(* Times *)

INFINITY == 1000000
NaN == -1000000

IsNaN(x) == x = NaN
IsInf(x) == x = INFINITY

\* float addition and subtraction on {finite, inf, nan}
Plus(a, b) ==
    IF IsNaN(a) \/ IsNaN(b) THEN NaN
    ELSE IF IsInf(a) \/ IsInf(b) THEN INFINITY
    ELSE a + b

Minus(a, b) ==
    IF IsNaN(a) \/ IsNaN(b) THEN NaN
    ELSE IF IsInf(a) /\ IsInf(b) THEN NaN
    ELSE IF IsInf(a) THEN INFINITY
    ELSE IF IsInf(b) THEN -INFINITY
    ELSE a - b

\* float comparisons: every comparison with nan is false, except !=
Eq(a, b) == ~IsNaN(a) /\ ~IsNaN(b) /\ a = b
Neq(a, b) == ~Eq(a, b)
Leq(a, b) == ~IsNaN(a) /\ ~IsNaN(b) /\ a <= b
Lt(a, b) == ~IsNaN(a) /\ ~IsNaN(b) /\ a < b

\* Python's min(list, default=d): the first element, replaced by each later
\* element that compares smaller
RECURSIVE PyMinFrom(_, _)
PyMinFrom(best, xs) ==
    IF xs = <<>> THEN best
    ELSE PyMinFrom(IF Lt(Head(xs), best) THEN Head(xs) ELSE best, Tail(xs))

PyMin(xs, default) == IF xs = <<>> THEN default ELSE PyMinFrom(Head(xs), Tail(xs))

Range(f) == {f[x] : x \in DOMAIN f}

----------------------------------------------------------------------------
(* Models: Port, Coupling, Atomic, Coupled (perfdevs.models) *)

\* a native value, and its pickled text
Object(v) == [pickled |-> FALSE, v |-> v]
Dumps(v) == [pickled |-> TRUE, v |-> v]

\* pickle.loads(x.encode()): defined on pickled text only, raises otherwise
CanLoad(x) == x.pickled
Loads(x) == Object(x.v)

LoadsAll(values) == [i \in DOMAIN values |-> Loads(values[i])]

MkPort(parent, name) == <<parent, name>>
Coupling(a, b) == [port_from |-> a, port_to |-> b]

\* "%s.%s" % (pts.parent.name, pts.name)
PortName(p) == p[1] \o "." \o p[2]

\* R = [A, B] or [B, A]: A and B feed each other, the root feeds A
Flat(order) ==
    [name |-> "flat",
     root |-> "R",
     kind |-> [n \in {"R", "A", "B"} |-> IF n = "R" THEN "coupled" ELSE "atomic"],
     components |-> ("R" :> order),
     in_ports |-> [n \in {"R", "A", "B"} |-> <<"i">>],
     out_ports |-> [n \in {"R", "A", "B"} |-> <<"o">>],
     serve |-> {MkPort("A", "i")},
     eic |-> ("R" :> <<Coupling(MkPort("R", "i"), MkPort("A", "i"))>>),
     ic |-> ("R" :> <<Coupling(MkPort("B", "o"), MkPort("A", "i")),
                      Coupling(MkPort("A", "o"), MkPort("B", "i"))>>),
     eoc |-> ("R" :> <<Coupling(MkPort("A", "o"), MkPort("R", "o"))>>),
     chain |-> ("R" :> FALSE)]

\* R = [A, C] or [C, A], C = [B]: B's output leaves C and reaches A
Nested(order) ==
    [name |-> "nested",
     root |-> "R",
     kind |-> [n \in {"R", "C", "A", "B"} |->
                 IF n \in {"R", "C"} THEN "coupled" ELSE "atomic"],
     components |-> ("R" :> order) @@ ("C" :> <<"B">>),
     in_ports |-> [n \in {"R", "C", "A", "B"} |-> <<"i">>],
     out_ports |-> [n \in {"R", "C", "A", "B"} |-> <<"o">>],
     serve |-> {MkPort("B", "i")},
     eic |-> ("R" :> <<Coupling(MkPort("R", "i"), MkPort("C", "i"))>>)
             @@ ("C" :> <<Coupling(MkPort("C", "i"), MkPort("B", "i"))>>),
     ic |-> ("R" :> <<Coupling(MkPort("C", "o"), MkPort("A", "i"))>>)
            @@ ("C" :> <<>>),
     eoc |-> ("R" :> <<Coupling(MkPort("A", "o"), MkPort("R", "o"))>>)
             @@ ("C" :> <<Coupling(MkPort("B", "o"), MkPort("C", "o"))>>),
     chain |-> ("R" :> FALSE) @@ ("C" :> FALSE)]

\* R = [C1, C2], C1 = [A], C2 = [C3], C3 = [B]: B's output climbs two levels,
\* crosses the root and descends to A; the root's input descends to B
Deep ==
    [name |-> "deep",
     root |-> "R",
     kind |-> [n \in {"R", "C1", "C2", "C3", "A", "B"} |->
                 IF n \in {"A", "B"} THEN "atomic" ELSE "coupled"],
     components |-> ("R" :> <<"C1", "C2">>) @@ ("C1" :> <<"A">>)
                    @@ ("C2" :> <<"C3">>) @@ ("C3" :> <<"B">>),
     in_ports |-> [n \in {"R", "C1", "C2", "C3", "A", "B"} |-> <<"i">>],
     out_ports |-> [n \in {"R", "C1", "C2", "C3", "A", "B"} |-> <<"o">>],
     serve |-> {MkPort("A", "i")},
     eic |-> ("R" :> <<Coupling(MkPort("R", "i"), MkPort("C2", "i"))>>)
             @@ ("C1" :> <<Coupling(MkPort("C1", "i"), MkPort("A", "i"))>>)
             @@ ("C2" :> <<Coupling(MkPort("C2", "i"), MkPort("C3", "i"))>>)
             @@ ("C3" :> <<Coupling(MkPort("C3", "i"), MkPort("B", "i"))>>),
     ic |-> ("R" :> <<Coupling(MkPort("C2", "o"), MkPort("C1", "i"))>>)
            @@ ("C1" :> <<>>) @@ ("C2" :> <<>>) @@ ("C3" :> <<>>),
     eoc |-> ("R" :> <<Coupling(MkPort("C1", "o"), MkPort("R", "o"))>>)
             @@ ("C1" :> <<Coupling(MkPort("A", "o"), MkPort("C1", "o"))>>)
             @@ ("C2" :> <<Coupling(MkPort("C3", "o"), MkPort("C2", "o"))>>)
             @@ ("C3" :> <<Coupling(MkPort("B", "o"), MkPort("C3", "o"))>>),
     chain |-> [n \in {"R", "C1", "C2", "C3"} |-> FALSE]]

FlatAB == Flat(<<"A", "B">>)
FlatBA == Flat(<<"B", "A">>)
NestedAC == Nested(<<"A", "C">>)

\* R = [A, other]: the root's input reaches A and A's output leaves the root; other is
\* "X", a component that is neither an Atomic nor a Coupled, or "E", a Coupled with no
\* component
Single(other, kind) ==
    [name |-> "single",
     root |-> "R",
     kind |-> ("R" :> "coupled") @@ ("A" :> "atomic") @@ (other :> kind),
     components |-> IF kind = "coupled" THEN ("R" :> <<"A", other>>) @@ (other :> <<>>)
                    ELSE ("R" :> <<"A", other>>),
     in_ports |-> ("R" :> <<"i">>) @@ ("A" :> <<"i">>) @@ (other :> <<>>),
     out_ports |-> ("R" :> <<"o">>) @@ ("A" :> <<"o">>) @@ (other :> <<>>),
     serve |-> {MkPort("A", "i")},
     eic |-> IF kind = "coupled"
             THEN ("R" :> <<Coupling(MkPort("R", "i"), MkPort("A", "i"))>>) @@ (other :> <<>>)
             ELSE ("R" :> <<Coupling(MkPort("R", "i"), MkPort("A", "i"))>>),
     ic |-> IF kind = "coupled" THEN ("R" :> <<>>) @@ (other :> <<>>) ELSE ("R" :> <<>>),
     eoc |-> IF kind = "coupled"
             THEN ("R" :> <<Coupling(MkPort("A", "o"), MkPort("R", "o"))>>) @@ (other :> <<>>)
             ELSE ("R" :> <<Coupling(MkPort("A", "o"), MkPort("R", "o"))>>),
     chain |-> IF kind = "coupled" THEN ("R" :> FALSE) @@ (other :> FALSE)
               ELSE ("R" :> FALSE)]

Odd == Single("X", "other")
Hollow == Single("E", "coupled")

\* R = [C, D], C = [A], D = [B]: A's output leaves C on two ports, both coupled to D's input,
\* which descends to B: two coupling paths from A.o to B.i; the root's input descends to A
Braid ==
    [name |-> "braid",
     root |-> "R",
     kind |-> [n \in {"R", "C", "D", "A", "B"} |->
                 IF n \in {"A", "B"} THEN "atomic" ELSE "coupled"],
     components |-> ("R" :> <<"C", "D">>) @@ ("C" :> <<"A">>) @@ ("D" :> <<"B">>),
     in_ports |-> [n \in {"R", "C", "D", "A", "B"} |-> <<"i">>],
     out_ports |-> [n \in {"R", "C", "D", "A", "B"} |->
                      IF n = "C" THEN <<"o", "o2">> ELSE <<"o">>],
     serve |-> {MkPort("B", "i")},
     eic |-> ("R" :> <<Coupling(MkPort("R", "i"), MkPort("C", "i"))>>)
             @@ ("C" :> <<Coupling(MkPort("C", "i"), MkPort("A", "i"))>>)
             @@ ("D" :> <<Coupling(MkPort("D", "i"), MkPort("B", "i"))>>),
     ic |-> ("R" :> <<Coupling(MkPort("C", "o"), MkPort("D", "i")),
                      Coupling(MkPort("C", "o2"), MkPort("D", "i"))>>)
            @@ ("C" :> <<>>) @@ ("D" :> <<>>),
     eoc |-> ("R" :> <<Coupling(MkPort("D", "o"), MkPort("R", "o"))>>)
             @@ ("C" :> <<Coupling(MkPort("A", "o"), MkPort("C", "o")),
                          Coupling(MkPort("A", "o"), MkPort("C", "o2"))>>)
             @@ ("D" :> <<Coupling(MkPort("B", "o"), MkPort("D", "o"))>>),
     chain |-> [n \in {"R", "C", "D"} |-> FALSE]]

Models == {FlatAB, FlatBA, NestedAC, Deep}
PathModels == {Deep, Braid}

\* The DEVStone benchmark models LI and HI of width w and depth d.  The coupled model of
\* level k > 1 holds the coupled model of level k - 1 and w - 1 atomics, the one of level 1
\* holds one atomic; the root is the coupled model of level d.
Widths == {1, 2, 3}
Depths == {1, 2}
CoupledName(k) == <<"C1", "C2", "C3">>[k]
AtomicName(k, j) == <<<<"A11", "A12", "A13">>, <<"A21", "A22", "A23">>,
                      <<"A31", "A32", "A33">>>>[k][j]

LevelAtomics(w, k) == IF k = 1 THEN <<AtomicName(1, 1)>> ELSE [j \in 1 .. (w - 1) |-> AtomicName(k, j)]

DEVStone(type, w, d) ==
    LET level == [k \in 1 .. d |-> CoupledName(k)]
        coupleds == Range(level)
        atomics == UNION {Range(LevelAtomics(w, k)) : k \in 1 .. d}
        Level(c) == CHOOSE k \in 1 .. d : level[k] = c
        In(n) == MkPort(n, "i_in")
        Out(n) == MkPort(n, "o_out")
    IN [name |-> type,
        root |-> level[d],
        kind |-> [n \in coupleds \cup atomics |-> IF n \in coupleds THEN "coupled" ELSE "atomic"],
        components |-> [c \in coupleds |->
            IF Level(c) = 1 THEN LevelAtomics(w, 1)
            ELSE <<level[Level(c) - 1]>> \o LevelAtomics(w, Level(c))],
        in_ports |-> [n \in coupleds \cup atomics |-> <<"i_in">>],
        out_ports |-> [n \in coupleds \cup atomics |->
            IF n \in coupleds \/ type = "HI" \/ n = AtomicName(1, 1) THEN <<"o_out">> ELSE <<>>],
        serve |-> {},
        eic |-> [c \in coupleds |->
            IF Level(c) = 1 THEN <<Coupling(In(c), In(AtomicName(1, 1)))>>
            ELSE <<Coupling(In(c), In(level[Level(c) - 1]))>>
                 \o [j \in 1 .. (w - 1) |-> Coupling(In(c), In(AtomicName(Level(c), j)))]],
        ic |-> [c \in coupleds |->
            IF Level(c) = 1 \/ type = "LI" \/ w < 3 THEN <<>>
            ELSE [j \in 1 .. (w - 2) |->
                    Coupling(Out(AtomicName(Level(c), j)), In(AtomicName(Level(c), j + 1)))]],
        eoc |-> [c \in coupleds |->
            IF Level(c) = 1 THEN <<Coupling(Out(AtomicName(1, 1)), Out(c))>>
            ELSE <<Coupling(Out(level[Level(c) - 1]), Out(c))>>],
        chain |-> [c \in coupleds |-> FALSE]]

DEVStones == {DEVStone(type, w, d) : type \in {"LI", "HI"}, w \in Widths, d \in Depths}
StructModels == {Odd, Hollow}

\* the Coupled model of the run
M == model

Nodes(m) == DOMAIN m.kind
Atomics(m) == {n \in Nodes(m) : m.kind[n] = "atomic"}
Coupleds(m) == {n \in Nodes(m) : m.kind[n] = "coupled"}
InPorts(m, n) == {MkPort(n, m.in_ports[n][i]) : i \in DOMAIN m.in_ports[n]}
OutPorts(m, n) == {MkPort(n, m.out_ports[n][i]) : i \in DOMAIN m.out_ports[n]}
AllPorts(m) == UNION {InPorts(m, n) \cup OutPorts(m, n) : n \in Nodes(m)}

\* what a transition body may do to sigma: leave it, or hold for a new time
SigmaVals == {0, 1, MaxSigma, INFINITY}
SigmaChoices == [kind : {"keep"}, v : {0}] \cup [kind : {"hold"}, v : SigmaVals]

KeepChoice == [kind |-> "keep", v |-> 0]

----------------------------------------------------------------------------
(* The state the kernel's methods work on, as one record *)

State ==
    [clock |-> clock, time_last |-> time_last, time_next |-> time_next,
     sigma |-> sigma, ports |-> ports, coordinators |-> coordinators,
     simulators |-> simulators, ports_to_serve |-> ports_to_serve,
     log |-> <<>>, env |-> <<>>]

WithEnv(s, env) == [s EXCEPT !.env = env]

Event(s, e) == [s EXCEPT !.log = Append(@, e @@ [t |-> s.clock])]

\* Port.clear, Port.extend
PortClear(p, s) ==
    Event([s EXCEPT !.ports[p] = <<>>], [op |-> "Port.clear", who |-> p])

PortExtend(p, values, s) ==
    Event([s EXCEPT !.ports[p] = @ \o values],
          [op |-> "Port.extend", who |-> p, values |-> values])

\* Coupling.propagate: port_to.extend(port_from.values)
Propagate(kind, coup, s) ==
    Event([s EXCEPT !.ports[coup.port_to] = @ \o s.ports[coup.port_from]],
          [op |-> "Coupling.propagate", who |-> coup, kind |-> kind,
           values |-> s.ports[coup.port_from]])

\* Atomic.in_empty
InEmpty(a, s) == \A p \in InPorts(M, a) : s.ports[p] = <<>>

\* Atomic.ta
ModelTa(a, s) == s.sigma[a]

ApplyChoice(a, s) ==
    IF s.env.ch[a].kind = "keep" THEN s ELSE [s EXCEPT !.sigma[a] = s.env.ch[a].v]

\* Atomic.initialize, lambdaf, deltint, deltext, deltcon: bodies of the user
ModelInitialize(a, s) == [s EXCEPT !.sigma[a] = s.env.init[a]]

RECURSIVE EmitOn(_, _, _)
EmitOn(a, names, s) ==
    IF names = <<>> THEN s
    ELSE EmitOn(a, Tail(names),
                [s EXCEPT !.ports[MkPort(a, Head(names))] = Append(@, Object(a))])

ModelLambdaf(a, s) ==
    LET s1 == Event(s, [op |-> "lambdaf", who |-> a, emits |-> s.env.em[a]])
    IN IF s.env.em[a] THEN EmitOn(a, M.out_ports[a], s1) ELSE s1

ModelDeltint(a, s) ==
    ApplyChoice(a, Event(s, [op |-> "deltint", who |-> a, e |-> 0,
                             sigma |-> s.sigma[a],
                             inputs |-> [p \in InPorts(M, a) |-> s.ports[p]]]))

ModelDeltext(a, e, s) ==
    ApplyChoice(a, Event(s, [op |-> "deltext", who |-> a, e |-> e,
                             sigma |-> s.sigma[a],
                             inputs |-> [p \in InPorts(M, a) |-> s.ports[p]]]))

ModelDeltcon(a, e, s) ==
    ApplyChoice(a, Event(s, [op |-> "deltcon", who |-> a, e |-> e,
                             sigma |-> s.sigma[a],
                             inputs |-> [p \in InPorts(M, a) |-> s.ports[p]]]))

----------------------------------------------------------------------------
(* Simulator *)

\* AbstractSimulator.__init__: a new processor with time_last = time_next = 0
NewProcessor(p, s) ==
    [s EXCEPT !.time_last = (p :> 0) @@ @, !.time_next = (p :> 0) @@ @]

SimTa(a, s) == ModelTa(a, s)

SimInitialize(a, s) ==
    LET s1 == ModelInitialize(a, s)
        s2 == [s1 EXCEPT !.time_last[a] = s1.clock]
    IN [s2 EXCEPT !.time_next[a] = Plus(s2.time_last[a], ModelTa(a, s2))]

\* time_next computed from the old time_last
SimUpdateTimes_Stale(a, t, s) ==
    [s EXCEPT !.time_next[a] = Plus(s.time_last[a], ModelTa(a, s)),
              !.time_last[a] = t]

\* the tail of deltfcn: time_last = t; time_next = time_last + M.ta
SimUpdateTimes(a, t, s) ==
    LET s1 == [s EXCEPT !.time_last[a] = t]
    IN [s1 EXCEPT !.time_next[a] = Plus(s1.time_last[a], ModelTa(a, s1))]

\* a deltfcn that forgets to record the elapsed time in sigma
SimDeltfcnBody_NoElapsed(a, s) ==
    LET t == s.clock
        in_empty == InEmpty(a, s)
    IN IF in_empty
       THEN IF Neq(t, s.time_next[a])
            THEN s
            ELSE SimUpdateTimes(a, t, ModelDeltint(a, s))
       ELSE LET e == Minus(t, s.time_last[a])
            IN IF Eq(t, s.time_next[a])
               THEN SimUpdateTimes(a, t, ModelDeltcon(a, e, s))
               ELSE SimUpdateTimes(a, t, ModelDeltext(a, e, s))

SimDeltfcnBody(a, s) ==
    LET t == s.clock
        in_empty == InEmpty(a, s)
    IN IF in_empty
       THEN IF Neq(t, s.time_next[a])
            THEN s
            ELSE SimUpdateTimes(a, t, ModelDeltint(a, s))
       ELSE LET e == Minus(t, s.time_last[a])
                s1 == [s EXCEPT !.sigma[a] = Minus(@, e)]
            IN IF Eq(t, s.time_next[a])
               THEN SimUpdateTimes(a, t, ModelDeltcon(a, e, s1))
               ELSE SimUpdateTimes(a, t, ModelDeltext(a, e, s1))

\* Simulator.deltfcn, with its entry and its return recorded
SimDeltfcn(a, s) ==
    LET s1 == Event(s, [op |-> "Simulator.deltfcn", who |-> a,
                        in_empty |-> InEmpty(a, s),
                        time_last |-> s.time_last[a],
                        time_next |-> s.time_next[a],
                        sigma |-> s.sigma[a]])
        s2 == SimDeltfcnBody(a, s1)
    IN Event(s2, [op |-> "Simulator.return", who |-> a,
                  time_last |-> s2.time_last[a],
                  time_next |-> s2.time_next[a],
                  sigma |-> s2.sigma[a]])

\* lambdaf without the test on time_next: the output function of every atomic in every cycle
SimLambdaf_Always(a, s) == ModelLambdaf(a, s)

SimLambdaf(a, s) ==
    IF Eq(s.clock, s.time_next[a]) THEN ModelLambdaf(a, s) ELSE s

RECURSIVE ClearPorts(_, _, _)
ClearPorts(n, names, s) ==
    IF names = <<>> THEN s
    ELSE ClearPorts(n, Tail(names), PortClear(MkPort(n, Head(names)), s))

SimClear(a, s) ==
    ClearPorts(a, M.out_ports[a], ClearPorts(a, M.in_ports[a], s))

----------------------------------------------------------------------------
(* Coordinator *)

IsCoordinator(p, s) == p \in DOMAIN s.coordinators

\* the generator Coordinator.processors: coordinators first, then simulators
Processors(c, s) == s.coordinators[c] \o s.simulators[c]

RECURSIVE ServePorts(_, _, _, _)
ServePorts(c, a, names, s) ==
    IF names = <<>> THEN s
    ELSE LET pts == MkPort(a, Head(names))
             s1 == IF pts \in M.serve
                   THEN [s EXCEPT !.ports_to_serve[c] = (PortName(pts) :> pts) @@ @]
                   ELSE s
         IN ServePorts(c, a, Tail(names), s1)

AddSimulator(c, atomic, s) ==
    LET s1 == NewProcessor(atomic, s)
        s2 == [s1 EXCEPT !.simulators[c] = Append(@, atomic)]
    IN ServePorts(c, atomic, M.in_ports[atomic], s2)

\* Coordinator.__init__ of the child (no hierarchy yet, an empty ports_to_serve),
\* then self.ports_to_serve.update(coord.ports_to_serve)
AddCoordinator(c, coupled, s) ==
    LET s1 == NewProcessor(coupled, s)
        s2 == [s1 EXCEPT !.coordinators = (coupled :> <<>>) @@ @,
                         !.simulators = (coupled :> <<>>) @@ @,
                         !.ports_to_serve = (coupled :> <<>>) @@ @]
        s3 == [s2 EXCEPT !.coordinators[c] = Append(@, coupled)]
    IN [s3 EXCEPT !.ports_to_serve[c] = s3.ports_to_serve[coupled] @@ @]

RECURSIVE BuildFrom(_, _, _)
BuildFrom(c, comps, s) ==
    IF comps = <<>> THEN s
    ELSE LET comp == Head(comps)
             s1 == IF M.kind[comp] = "coupled" THEN AddCoordinator(c, comp, s)
                   ELSE IF M.kind[comp] = "atomic" THEN AddSimulator(c, comp, s)
                   ELSE s
         IN BuildFrom(c, Tail(comps), s1)

BuildHierarchy(c, s) == BuildFrom(c, M.components[c], s)

RECURSIVE TimeNexts(_, _)
TimeNexts(procs, s) ==
    IF procs = <<>> THEN <<>>
    ELSE <<s.time_next[Head(procs)]>> \o TimeNexts(Tail(procs), s)

\* a ta() that returns the time of the next event, not the time until it
CoordTa_Absolute(c, s) == PyMin(TimeNexts(Processors(c, s), s), 0)

CoordTa(c, s) == Minus(PyMin(TimeNexts(Processors(c, s), s), 0), s.clock)

\* time_last = clock.time; time_next = time_last + ta()
CoordUpdateTimes(c, s) ==
    LET s1 == [s EXCEPT !.time_last[c] = s.clock]
        s2 == [s1 EXCEPT !.time_next[c] = Plus(s1.time_last[c], CoordTa(c, s1))]
    IN Event(s2, [op |-> "Coordinator.times", who |-> c,
                  time_last |-> s2.time_last[c], time_next |-> s2.time_next[c]])

RECURSIVE CoordInitialize(_, _), InitializeAll(_, _)
InitializeAll(procs, s) ==
    IF procs = <<>> THEN s
    ELSE InitializeAll(Tail(procs),
                       IF IsCoordinator(Head(procs), s)
                       THEN CoordInitialize(Head(procs), s)
                       ELSE SimInitialize(Head(procs), s))

CoordInitialize(c, s) ==
    LET s1 == BuildHierarchy(c, s)
        s2 == InitializeAll(Processors(c, s1), s1)
    IN CoordUpdateTimes(c, s2)

RECURSIVE PropagateAll(_, _, _)
PropagateAll(kind, coups, s) ==
    IF coups = <<>> THEN s
    ELSE PropagateAll(kind, Tail(coups), Propagate(kind, Head(coups), s))

\* a propagate_output that leaves the internal couplings out
PropagateOutput_NoIC(c, s) ==
    IF ~M.chain[c] THEN PropagateAll("eoc", M.eoc[c], s) ELSE s

PropagateOutput(c, s) ==
    IF ~M.chain[c]
    THEN PropagateAll("eoc", M.eoc[c], PropagateAll("ic", M.ic[c], s))
    ELSE s

PropagateInput(c, s) ==
    IF ~M.chain[c] THEN PropagateAll("eic", M.eic[c], s) ELSE s

RECURSIVE CoordLambdaf(_, _), LambdafAll(_, _)
LambdafAll(procs, s) ==
    IF procs = <<>> THEN s
    ELSE LambdafAll(Tail(procs),
                    IF IsCoordinator(Head(procs), s)
                    THEN CoordLambdaf(Head(procs), s)
                    ELSE SimLambdaf(Head(procs), s))

\* a lambdaf that propagates the outputs before the children have produced them
CoordLambdaf_PropagateFirst(c, s) ==
    LET s1 == Event(s, [op |-> "Coordinator.lambdaf", who |-> c])
    IN LambdafAll(Processors(c, s1), PropagateOutput(c, s1))

CoordLambdaf(c, s) ==
    LET s1 == Event(s, [op |-> "Coordinator.lambdaf", who |-> c])
    IN PropagateOutput(c, LambdafAll(Processors(c, s1), s1))

RECURSIVE CoordDeltfcn(_, _), DeltfcnAll(_, _), CoordDeltfcn_ChildrenFirst(_, _)
DeltfcnAll(procs, s) ==
    IF procs = <<>> THEN s
    ELSE DeltfcnAll(Tail(procs),
                    IF IsCoordinator(Head(procs), s)
                    THEN CoordDeltfcn(Head(procs), s)
                    ELSE SimDeltfcn(Head(procs), s))

\* a deltfcn that propagates the coupled model's inputs after the children's transitions
CoordDeltfcn_ChildrenFirst(c, s) ==
    LET s1 == Event(s, [op |-> "Coordinator.deltfcn", who |-> c])
        s2 == DeltfcnAll(Processors(c, s1), s1)
        s3 == PropagateInput(c, s2)
    IN CoordUpdateTimes(c, s3)

CoordDeltfcn(c, s) ==
    LET s1 == Event(s, [op |-> "Coordinator.deltfcn", who |-> c])
        s2 == PropagateInput(c, s1)
        s3 == DeltfcnAll(Processors(c, s2), s2)
    IN CoordUpdateTimes(c, s3)

RECURSIVE CoordClear(_, _), ClearAll(_, _)
ClearAll(procs, s) ==
    IF procs = <<>> THEN s
    ELSE ClearAll(Tail(procs),
                  IF IsCoordinator(Head(procs), s)
                  THEN CoordClear(Head(procs), s)
                  ELSE SimClear(Head(procs), s))

\* a clear that leaves the coupled model's own ports as they are
CoordClear_ChildrenOnly(c, s) ==
    LET s1 == Event(s, [op |-> "Coordinator.clear", who |-> c])
    IN ClearAll(Processors(c, s1), s1)

CoordClear(c, s) ==
    LET s1 == Event(s, [op |-> "Coordinator.clear", who |-> c])
        s2 == ClearAll(Processors(c, s1), s1)
    IN ClearPorts(c, M.out_ports[c], ClearPorts(c, M.in_ports[c], s2))

\* self.clock.time = v
SetClock(v, s) ==
    Event([s EXCEPT !.clock = v],
          [op |-> "clock.time", who |-> "clock", v |-> v, old |-> s.clock])

\* a cycle that clears the ports before the transitions have read them
Cycle_ClearFirst(c, s) ==
    LET s1 == CoordLambdaf(c, s)
        s2 == CoordClear(c, s1)
        s3 == CoordDeltfcn(c, s2)
    IN SetClock(s3.time_next[c], s3)

\* the body of the drivers' loops and of inject's accepted branch:
\* lambdaf; deltfcn; clear; clock.time = time_next
Cycle(c, s) ==
    LET s1 == CoordLambdaf(c, s)
        s2 == CoordDeltfcn(c, s1)
        s3 == CoordClear(c, s2)
    IN SetClock(s3.time_next[c], s3)

----------------------------------------------------------------------------
(* Values, and the arguments of inject *)

\* the argument values: one value, or a list of values
Scalar(x) == [is_list |-> FALSE, x |-> x, v |-> <<>>]
List(v) == [is_list |-> TRUE, x |-> Object(""), v |-> v]

InjectValues ==
    {Scalar(Object("x")), List(<<Dumps("x"), Dumps("y")>>)}

\* a Port object of the model, or a string
NoPort == <<"", "">>
PortArg(p) == [is_str |-> FALSE, name |-> "", port |-> p]
NameArg(n) == [is_str |-> TRUE, name |-> n, port |-> NoPort]

InjectPorts(m) ==
    {PortArg(p) : p \in InPorts(m, m.root) \cup m.serve}
    \cup {NameArg(PortName(p)) : p \in m.serve}
    \cup {NameArg("nosuch.i")}

NoArgs == [port |-> PortArg(NoPort), values |-> List(<<>>), e |-> 0]

----------------------------------------------------------------------------
(* The root coordinator's API *)

Root == M.root

\* the variables a method of the kernel can write, from the record it returns
Store(s) ==
    /\ clock' = s.clock
    /\ time_last' = s.time_last
    /\ time_next' = s.time_next
    /\ sigma' = s.sigma
    /\ ports' = s.ports
    /\ coordinators' = s.coordinators
    /\ simulators' = s.simulators
    /\ ports_to_serve' = s.ports_to_serve
    /\ log' = s.log

Unchanged == UNCHANGED <<clock, time_last, time_next, sigma, ports,
                         coordinators, simulators, ports_to_serve>>

NoEnv == [init |-> <<>>, ch |-> <<>>, em |-> <<>>]
NoCall == [op |-> "none", args |-> NoArgs, ret |-> "none"]

\* the atomics whose transition function a run called
Called(l) ==
    {l[i].who : i \in {j \in DOMAIN l : l[j].op \in {"deltint", "deltext", "deltcon"}}}

\* The behaviours of the atomics that make a difference to a cycle at time t:
\* only an atomic whose lambdaf is called (time_next = t) can emit, and only an
\* atomic whose transition function is called chooses a new sigma.  Which
\* transition functions are called does not depend on the sigmas chosen, so a
\* run of the cycle in which every atomic keeps its sigma tells them.
Emits(t) ==
    {f \in [Atomics(M) -> BOOLEAN] : \A a \in Atomics(M) : f[a] => Eq(t, time_next[a])}

ProbeEnv(em) == [NoEnv EXCEPT !.ch = [a \in Atomics(M) |-> KeepChoice], !.em = em]

\* the behaviours in which em emit and only the atomics of called choose a sigma
Envs(em, called) ==
    {[NoEnv EXCEPT !.ch = ch, !.em = em] :
        ch \in {c \in [Atomics(M) -> SigmaChoices] :
                   \A a \in Atomics(M) \ called : c[a] = KeepChoice}}

\* Coordinator(M): the clock is a new SimulationClock, no processor yet
\* Coordinator(M, SimulationClock(time)): time_last = time_next = 0 whatever the clock
Constructed(time) ==
    /\ clock = time
    /\ time_last = (M.root :> 0)
    /\ time_next = (M.root :> 0)
    /\ sigma = [a \in Atomics(M) |-> INFINITY]
    /\ ports = [p \in AllPorts(M) |-> <<>>]
    /\ coordinators = (M.root :> <<>>)
    /\ simulators = (M.root :> <<>>)
    /\ ports_to_serve = (M.root :> <<>>)
    /\ pc = "constructed"
    /\ cont = 0
    /\ num_iters = 0
    /\ tf = 0
    /\ call = [NoCall EXCEPT !.op = "__init__"]
    /\ log = <<>>
    /\ cls = "Coordinator"
    /\ kwargs = {}
    /\ pool = [a \in Atomics(M) |-> 0]
    /\ todo = <<>>
    /\ int_count = [a \in Atomics(M) |-> 0]
    /\ ext_count = [a \in Atomics(M) |-> 0]

Init == model \in Models /\ Constructed(0)

Initialize ==
    /\ pc = "constructed"
    /\ \E init \in [Atomics(M) -> SigmaVals] :
          \E r \in {CoordInitialize(Root, WithEnv(State, [NoEnv EXCEPT !.init = init]))} :
             Store(r)
    /\ pc' = "returned"
    /\ call' = [NoCall EXCEPT !.op = "initialize"]
    /\ UNCHANGED <<model, cont, num_iters, tf>>
    /\ UNCHANGED extra

\* an accepted branch that runs the cycle without setting the clock to time
InjectAccept_NoClock(port, values, time, s) ==
    Cycle(Root, PortExtend(port, values, s))

\* the accepted branch of inject
InjectAccept(port, values, time, s) ==
    Cycle(Root, SetClock(time, PortExtend(port, values, s)))

\* an inject that does not look at the time window
InjectCheck_NoWindow(port, values, time, s) ==
    [ret |-> "true", s |-> InjectAccept(port, values, time, s)]

\* an inject that appends the values before it looks at the time window
InjectCheck_ExtendFirst(port, values, time, s) ==
    IF Leq(time, s.time_next[Root]) \/ Neq(time, time)
    THEN [ret |-> "true", s |-> InjectAccept(port, values, time, s)]
    ELSE [ret |-> "false", s |-> PortExtend(port, values, s)]

\* if time <= self.time_next or time != time: ... return True / else: return False
InjectCheck(port, values, time, s) ==
    IF Leq(time, s.time_next[Root]) \/ Neq(time, time)
    THEN [ret |-> "true", s |-> InjectAccept(port, values, time, s)]
    ELSE [ret |-> "false", s |-> s]

\* an inject that takes e for the time of the injection
InjectTime_Absolute(e, s) == e

\* time = self.time_last + e
InjectTime(e, s) == Plus(s.time_last[Root], e)

\* an inject that reports an unknown port name as a failure
InjectBody_UnknownFalse(port, values, e, s) ==
    LET time == InjectTime(e, s)
        values1 == IF ~values.is_list THEN <<values.x>> ELSE values.v
    IN IF port.is_str
       THEN IF \E i \in DOMAIN values1 : ~CanLoad(values1[i])
            THEN [ret |-> "raised", s |-> s]
            ELSE IF port.name \in DOMAIN s.ports_to_serve[Root]
                 THEN InjectCheck(s.ports_to_serve[Root][port.name],
                                  LoadsAll(values1), time, s)
                 ELSE [ret |-> "false", s |-> s]
       ELSE InjectCheck(port.port, values1, time, s)

\* inject(port, values, e): what it returns and the state it leaves
InjectBody(port, values, e, s) ==
    LET time == InjectTime(e, s)
        values1 == IF ~values.is_list THEN <<values.x>> ELSE values.v
    IN IF port.is_str
       THEN IF \E i \in DOMAIN values1 : ~CanLoad(values1[i])
            THEN [ret |-> "raised", s |-> s]
            ELSE IF port.name \in DOMAIN s.ports_to_serve[Root]
                 THEN InjectCheck(s.ports_to_serve[Root][port.name],
                                  LoadsAll(values1), time, s)
                 ELSE [ret |-> "true", s |-> s]
       ELSE InjectCheck(port.port, values1, time, s)

Inject(port, values, e) ==
    LET Run(env) == InjectBody(port, values, e, WithEnv(State, env))
    IN /\ pc = "idle"
       /\ time_last[Root] <= MaxTime
       /\ \E em \in Emits(InjectTime(e, State)) :
          \E called \in {Called(Run(ProbeEnv(em)).s.log)} :
          \E env \in Envs(em, called) :
             \E r \in {Run(env)} :
                /\ Store(r.s)
                /\ call' = [op |-> "inject",
                            args |-> [port |-> port, values |-> values, e |-> e],
                            ret |-> r.ret]
       /\ pc' = "returned"
       /\ UNCHANGED <<model, cont, num_iters, tf>>
       /\ UNCHANGED extra

\* one iteration of a driver's loop
LoopBody ==
    LET Run(env) == Cycle(Root, WithEnv(State, env))
    IN \E em \in Emits(clock) :
       \E called \in {Called(Run(ProbeEnv(em)).log)} :
       \E env \in Envs(em, called) :
          \E r \in {Run(env)} : Store(r)

SimulateCall(n) ==
    /\ pc = "idle"
    /\ time_last[Root] <= MaxTime
    /\ Store(SetClock(time_next[Root], State))
    /\ cont' = 0
    /\ num_iters' = n
    /\ pc' = "simulate"
    /\ call' = [NoCall EXCEPT !.op = "simulate"]
    /\ UNCHANGED <<model, tf>>
    /\ UNCHANGED extra

\* one pass of the while of simulate without its cont += 1
SimulateLoop_NoCount ==
    /\ pc = "simulate"
    /\ cont < num_iters /\ Lt(clock, INFINITY)
    /\ LoopBody
    /\ cont' = cont
    /\ pc' = "simulate.body"
    /\ UNCHANGED <<model, num_iters, tf, call>>
    /\ UNCHANGED extra

SimulateLoop ==
    /\ pc = "simulate"
    /\ cont < num_iters /\ Lt(clock, INFINITY)
    /\ LoopBody
    /\ cont' = cont + 1
    /\ pc' = "simulate.body"
    /\ UNCHANGED <<model, num_iters, tf, call>>
    /\ UNCHANGED extra

SimulateReturn ==
    /\ pc = "simulate"
    /\ ~(cont < num_iters /\ Lt(clock, INFINITY))
    /\ pc' = "returned"
    /\ UNCHANGED <<model, clock, time_last, time_next, sigma, ports, coordinators,
                   simulators, ports_to_serve, cont, num_iters, tf, call, log>>
    /\ UNCHANGED extra

SimulateTimeCall(time_interv) ==
    /\ pc = "idle"
    /\ time_last[Root] <= MaxTime
    /\ Store(SetClock(time_next[Root], State))
    /\ tf' = Plus(time_next[Root], time_interv)
    /\ pc' = "simulate_time"
    /\ call' = [NoCall EXCEPT !.op = "simulate_time"]
    /\ UNCHANGED <<model, cont, num_iters>>
    /\ UNCHANGED extra

SimulateTimeLoop ==
    /\ pc = "simulate_time"
    /\ Lt(clock, tf)
    /\ clock <= MaxTime
    /\ LoopBody
    /\ pc' = "simulate_time.body"
    /\ UNCHANGED <<model, cont, num_iters, tf, call>>
    /\ UNCHANGED extra

SimulateTimeReturn ==
    /\ pc = "simulate_time"
    /\ ~Lt(clock, tf)
    /\ pc' = "returned"
    /\ UNCHANGED <<model, clock, time_last, time_next, sigma, ports, coordinators,
                   simulators, ports_to_serve, cont, num_iters, tf, call, log>>
    /\ UNCHANGED extra

SimulateInfCall ==
    /\ pc = "idle"
    /\ time_last[Root] <= MaxTime
    /\ pc' = "simulate_inf"
    /\ call' = [NoCall EXCEPT !.op = "simulate_inf"]
    /\ UNCHANGED <<model, clock, time_last, time_next, sigma, ports, coordinators,
                   simulators, ports_to_serve, cont, num_iters, tf, log>>
    /\ UNCHANGED extra

SimulateInfLoop ==
    /\ pc = "simulate_inf"
    /\ Neq(clock, INFINITY)
    /\ clock <= MaxTime
    /\ LoopBody
    /\ pc' = "simulate_inf.body"
    /\ UNCHANGED <<model, cont, num_iters, tf, call>>
    /\ UNCHANGED extra

SimulateInfReturn ==
    /\ pc = "simulate_inf"
    /\ ~Neq(clock, INFINITY)
    /\ pc' = "returned"
    /\ UNCHANGED <<model, clock, time_last, time_next, sigma, ports, coordinators,
                   simulators, ports_to_serve, cont, num_iters, tf, call, log>>
    /\ UNCHANGED extra

\* the end of a loop body: back to the while test
LoopBack ==
    /\ pc \in {"simulate.body", "simulate_time.body", "simulate_inf.body"}
    /\ pc' = CASE pc = "simulate.body" -> "simulate"
              [] pc = "simulate_time.body" -> "simulate_time"
              [] pc = "simulate_inf.body" -> "simulate_inf"
    /\ log' = <<>>
    /\ Unchanged
    /\ UNCHANGED <<model, cont, num_iters, tf, call>>
    /\ UNCHANGED extra

\* the caller has the result of its call and is free to make the next one
Resume ==
    /\ pc = "returned"
    /\ pc' = "idle"
    /\ cont' = 0
    /\ num_iters' = 0
    /\ tf' = 0
    /\ call' = NoCall
    /\ log' = <<>>
    /\ Unchanged
    /\ UNCHANGED model
    /\ UNCHANGED extra

Next ==
    \/ Initialize
    \/ \E port \in InjectPorts(M), values \in InjectValues, e \in 0 .. MaxE :
          Inject(port, values, e)
    \/ \E n \in NumIters : SimulateCall(n)
    \/ SimulateLoop
    \/ SimulateReturn
    \/ \E time_interv \in TimeIntervs : SimulateTimeCall(time_interv)
    \/ SimulateTimeLoop
    \/ SimulateTimeReturn
    \/ SimulateInfCall
    \/ SimulateInfLoop
    \/ SimulateInfReturn
    \/ LoopBack
    \/ Resume

Spec == Init /\ [][Next]_vars

\* the kernel on models with a foreign component or an empty coupled model
StructInit == model \in StructModels /\ \E time \in 0 .. MaxTime : Constructed(time)

StructSpec == StructInit /\ [][Next]_vars

\* the step of simulate from a while test that passed into the body: a SimulateLoop step,
\* told by the caller's position alone
SimulateEnter ==
    /\ pc = "simulate"
    /\ cont < num_iters /\ Lt(clock, INFINITY)
    /\ pc' = "simulate.body"

\* the kernel on trees whose couplings cross several levels, by one path and by two
PathInit == model \in PathModels /\ Constructed(0)

PathSpec == PathInit /\ [][Next]_vars

\* simulate runs on the caller's thread: the while test, the body and the return are taken
\* as soon as they can be
FairSpec ==
    Spec /\ WF_pc(SimulateEnter) /\ WF_vars(LoopBack) /\ WF_vars(SimulateReturn)

----------------------------------------------------------------------------
(* The run of tests/test_devstone.py: construct a coordinator on a DEVStone model,
   initialize, inject one value on the root's i_in, simulate().  The coordinator is
   the sequential one or one of the parallel ones; deltfcn is taken step by step, and
   the tasks handed to a thread pool run whenever a worker picks them. *)

Classes == {"Coordinator", "ParallelCoordinator", "ParallelProcessCoordinator"}

\* the keyword arguments of the constructor call: none, or those of the test
NoKwargs == {}
TestKwargs == {"flatten", "force_chain"}

\* the parameters of __init__ after self
Params(c) ==
    CASE c = "Coordinator" -> <<"model", "clock", "flatten", "chain">>
      [] c = "ParallelCoordinator" -> <<"model", "clock", "flatten", "chain", "executor">>
      [] c = "ParallelProcessCoordinator" ->
            <<"model", "clock", "flatten", "chain", "unroll", "master">>

\* the positional arguments __init__ hands to super().__init__
SuperArgs(c) ==
    CASE c = "Coordinator" -> <<"clock">>
      [] c = "ParallelCoordinator" -> <<"model", "clock", "flatten", "chain">>
      [] c = "ParallelProcessCoordinator" -> <<"model", "clock", "flatten", "chain", "unroll">>

\* the constructor call ends in a TypeError: an unexpected keyword argument, or more
\* positional arguments than Coordinator.__init__ takes
Raises(c, kw) ==
    \/ ~(kw \subseteq Range(Params(c)))
    \/ c # "Coordinator" /\ Len(SuperArgs(c)) > Len(Params("Coordinator"))

\* simulate(): num_iters = 10000
DefaultIters == 10000

\* DelayedAtomic: initialize passivates, lambdaf emits on each output port, deltint counts
\* and passivates, deltext counts and holds for 0, deltcon is deltint then deltext(0).
\* l tells which transition function each atomic runs.
DevstoneCh(l) ==
    [a \in Atomics(M) |->
        IF \E i \in DOMAIN l : l[i].op \in {"deltext", "deltcon"} /\ l[i].who = a
        THEN [kind |-> "hold", v |-> 0]
        ELSE IF \E i \in DOMAIN l : l[i].op = "deltint" /\ l[i].who = a
             THEN [kind |-> "hold", v |-> INFINITY]
             ELSE KeepChoice]

DevstoneEnv(l) ==
    [init |-> [a \in Atomics(M) |-> INFINITY],
     ch |-> DevstoneCh(l),
     em |-> [a \in Atomics(M) |-> TRUE]]

\* the transitions of l that add one to int_count, to ext_count
IntCounted(a, l) ==
    Cardinality({i \in DOMAIN l : l[i].op \in {"deltint", "deltcon"} /\ l[i].who = a})
ExtCounted(a, l) ==
    Cardinality({i \in DOMAIN l : l[i].op \in {"deltext", "deltcon"} /\ l[i].who = a})

\* the model before the coordinator exists, and no coordinator
TestInit ==
    /\ model \in DEVStones
    /\ cls \in Classes
    /\ kwargs \in {NoKwargs, TestKwargs}
    /\ clock = 0
    /\ time_last = <<>>
    /\ time_next = <<>>
    /\ sigma = [a \in Atomics(M) |-> INFINITY]
    /\ ports = [p \in AllPorts(M) |-> <<>>]
    /\ coordinators = <<>>
    /\ simulators = <<>>
    /\ ports_to_serve = <<>>
    /\ pc = "start"
    /\ cont = 0
    /\ num_iters = 0
    /\ tf = 0
    /\ call = NoCall
    /\ log = <<>>
    /\ pool = [a \in Atomics(M) |-> 0]
    /\ todo = <<>>
    /\ int_count = [a \in Atomics(M) |-> 0]
    /\ ext_count = [a \in Atomics(M) |-> 0]

\* cls(model, **kwargs)
Construct ==
    /\ pc = "start"
    /\ IF Raises(cls, kwargs)
       THEN /\ pc' = "raised"
            /\ call' = [NoCall EXCEPT !.op = "__init__", !.ret = "raised"]
            /\ UNCHANGED <<time_last, time_next, coordinators, simulators, ports_to_serve>>
       ELSE /\ pc' = "constructed"
            /\ call' = [NoCall EXCEPT !.op = "__init__"]
            /\ time_last' = (Root :> 0)
            /\ time_next' = (Root :> 0)
            /\ coordinators' = (Root :> <<>>)
            /\ simulators' = (Root :> <<>>)
            /\ ports_to_serve' = (Root :> <<>>)
    /\ UNCHANGED <<model, clock, sigma, ports, cont, num_iters, tf, log,
                   cls, kwargs, pool, todo, int_count, ext_count>>

TestInitialize ==
    /\ pc = "constructed"
    /\ \E r \in {CoordInitialize(Root, WithEnv(State, DevstoneEnv(<<>>)))} : Store(r)
    /\ pc' = "initialized"
    /\ call' = [NoCall EXCEPT !.op = "initialize"]
    /\ UNCHANGED <<model, cont, num_iters, tf, cls, kwargs, pool, todo, int_count, ext_count>>

\* the steps of c.deltfcn() in the order of the code: propagate_input, the deltfcn of each
\* child coordinator, the deltfcn of each child simulator, time_last and time_next
RECURSIVE DeltfcnSteps(_, _), DeltfcnStepsAll(_, _)
DeltfcnStepsAll(coords, s) ==
    IF coords = <<>> THEN <<>>
    ELSE DeltfcnSteps(Head(coords), s) \o DeltfcnStepsAll(Tail(coords), s)

DeltfcnSteps(c, s) ==
    <<[op |-> "propagate_input", who |-> c]>>
    \o DeltfcnStepsAll(s.coordinators[c], s)
    \o [i \in DOMAIN s.simulators[c] |-> [op |-> "deltfcn", who |-> s.simulators[c][i]]]
    \o <<[op |-> "times", who |-> c]>>

\* inject of a Port up to its call of deltfcn: the time, the values as a list, the time
\* window, port.extend, clock.time = time, lambdaf
InjectHead(port, values, e, s) ==
    LET time == InjectTime(e, s)
        values1 == IF ~values.is_list THEN <<values.x>> ELSE values.v
    IN IF Leq(time, s.time_next[Root]) \/ Neq(time, time)
       THEN [ret |-> "true",
             s |-> CoordLambdaf(Root, SetClock(time, PortExtend(port.port, values1, s)))]
       ELSE [ret |-> "false", s |-> s]

\* coord.inject(root.i_in, 0)
TestInject ==
    /\ pc = "initialized"
    /\ \E r \in {InjectHead(PortArg(MkPort(Root, "i_in")), Scalar(Object("x")), 0,
                            WithEnv(State, DevstoneEnv(<<>>)))} :
          /\ Store(r.s)
          /\ call' = [op |-> "inject",
                      args |-> [port |-> PortArg(MkPort(Root, "i_in")),
                                values |-> Scalar(Object("x")), e |-> 0],
                      ret |-> r.ret]
          /\ pc' = IF r.ret = "true" THEN "inject.deltfcn" ELSE "injected"
          /\ todo' = IF r.ret = "true" THEN DeltfcnSteps(Root, r.s) ELSE <<>>
    /\ UNCHANGED <<model, cont, num_iters, tf, cls, kwargs, pool, int_count, ext_count>>

InDeltfcn == pc \in {"inject.deltfcn", "simulate.deltfcn"} /\ todo # <<>>

\* self.propagate_input()
DeltfcnPropagate ==
    /\ InDeltfcn
    /\ Head(todo).op = "propagate_input"
    /\ \E r \in {PropagateInput(Head(todo).who,
                    Event(State, [op |-> "Coordinator.deltfcn", who |-> Head(todo).who]))} :
          Store(r)
    /\ todo' = Tail(todo)
    /\ UNCHANGED <<model, pc, cont, num_iters, tf, call, cls, kwargs, pool,
                   int_count, ext_count>>

\* Simulator.deltfcn of a DelayedAtomic, by the caller of deltfcn or by a worker
RunDeltfcn(a) ==
    \E probe \in {SimDeltfcn(a, WithEnv(State, DevstoneEnv(<<>>))).log} :
       \E r \in {SimDeltfcn(a, WithEnv(State, DevstoneEnv(probe)))} :
          /\ Store(r)
          /\ int_count' = [int_count EXCEPT ![a] = @ + IntCounted(a, r.log)]
          /\ ext_count' = [ext_count EXCEPT ![a] = @ + ExtCounted(a, r.log)]

\* Coordinator.deltfcn: proc.deltfcn() of a simulator
DeltfcnCall ==
    /\ InDeltfcn
    /\ Head(todo).op = "deltfcn"
    /\ cls = "Coordinator"
    /\ RunDeltfcn(Head(todo).who)
    /\ todo' = Tail(todo)
    /\ UNCHANGED <<model, pc, cont, num_iters, tf, call, cls, kwargs, pool>>

\* ParallelCoordinator.deltfcn: self.add_task_to_pool(sim.deltfcn); the future is dropped
DeltfcnSubmit ==
    /\ InDeltfcn
    /\ Head(todo).op = "deltfcn"
    /\ cls = "ParallelCoordinator"
    /\ pool[Head(todo).who] < MaxPending
    /\ pool' = [pool EXCEPT ![Head(todo).who] = @ + 1]
    /\ log' = <<[op |-> "submit", who |-> Head(todo).who, t |-> clock]>>
    /\ todo' = Tail(todo)
    /\ Unchanged
    /\ UNCHANGED <<model, pc, cont, num_iters, tf, call, cls, kwargs, int_count, ext_count>>

\* as_completed(ex_futures) of an empty list returns at once;
\* self.time_last = self.clock.time; self.time_next = self.time_last + self.ta()
DeltfcnTimes ==
    /\ InDeltfcn
    /\ Head(todo).op = "times"
    /\ \E r \in {CoordUpdateTimes(Head(todo).who, State)} : Store(r)
    /\ todo' = Tail(todo)
    /\ UNCHANGED <<model, pc, cont, num_iters, tf, call, cls, kwargs, pool,
                   int_count, ext_count>>

\* a worker thread of a pool runs a task
Worker ==
    /\ \E a \in Atomics(M) :
          /\ pool[a] > 0
          /\ RunDeltfcn(a)
          /\ pool' = [pool EXCEPT ![a] = @ - 1]
    /\ UNCHANGED <<model, pc, cont, num_iters, tf, call, cls, kwargs, todo>>

\* self.clear(), after deltfcn has returned
ClearStep ==
    /\ pc \in {"inject.deltfcn", "simulate.deltfcn"}
    /\ todo = <<>>
    /\ \E r \in {CoordClear(Root, State)} : Store(r)
    /\ pc' = IF pc = "inject.deltfcn" THEN "inject.clear" ELSE "simulate.clear"
    /\ UNCHANGED <<model, cont, num_iters, tf, call, cls, kwargs, pool, todo,
                   int_count, ext_count>>

\* self.clock.time = self.time_next; inject returns True, simulate adds one to cont
ClockStep ==
    /\ pc \in {"inject.clear", "simulate.clear"}
    /\ \E r \in {SetClock(time_next[Root], State)} : Store(r)
    /\ pc' = IF pc = "inject.clear" THEN "injected" ELSE "simulate"
    /\ cont' = IF pc = "inject.clear" THEN cont ELSE cont + 1
    /\ UNCHANGED <<model, num_iters, tf, call, cls, kwargs, pool, todo, int_count, ext_count>>

\* coord.simulate()
TestSimulate ==
    /\ pc = "injected"
    /\ \E r \in {SetClock(time_next[Root], State)} : Store(r)
    /\ cont' = 0
    /\ num_iters' = DefaultIters
    /\ pc' = "simulate"
    /\ call' = [NoCall EXCEPT !.op = "simulate"]
    /\ UNCHANGED <<model, tf, cls, kwargs, pool, todo, int_count, ext_count>>

\* the while test passes: self.lambdaf(), then into self.deltfcn()
TestSimulateLoop ==
    /\ pc = "simulate"
    /\ cont < num_iters /\ Lt(clock, INFINITY)
    /\ cont < MaxCycles
    /\ \E r \in {CoordLambdaf(Root, WithEnv(State, DevstoneEnv(<<>>)))} :
          /\ Store(r)
          /\ todo' = DeltfcnSteps(Root, r)
    /\ pc' = "simulate.deltfcn"
    /\ UNCHANGED <<model, cont, num_iters, tf, call, cls, kwargs, pool, int_count, ext_count>>

TestSimulateReturn ==
    /\ pc = "simulate"
    /\ ~(cont < num_iters /\ Lt(clock, INFINITY))
    /\ pc' = "done"
    /\ UNCHANGED <<model, clock, time_last, time_next, sigma, ports, coordinators,
                   simulators, ports_to_serve, cont, num_iters, tf, call, log,
                   cls, kwargs, pool, todo, int_count, ext_count>>

TestNext ==
    \/ Construct
    \/ TestInitialize
    \/ TestInject
    \/ DeltfcnPropagate
    \/ DeltfcnCall
    \/ DeltfcnSubmit
    \/ DeltfcnTimes
    \/ Worker
    \/ ClearStep
    \/ ClockStep
    \/ TestSimulate
    \/ TestSimulateLoop
    \/ TestSimulateReturn

TestSpec == TestInit /\ [][TestNext]_vars

\* The same calls on the sequential Coordinator, each taken as a whole: the state they
\* leave and the transitions they count.
NewCoordinator ==
    [clock |-> 0, time_last |-> (Root :> 0), time_next |-> (Root :> 0),
     sigma |-> [a \in Atomics(M) |-> INFINITY],
     ports |-> [p \in AllPorts(M) |-> <<>>],
     coordinators |-> (Root :> <<>>), simulators |-> (Root :> <<>>),
     ports_to_serve |-> (Root :> <<>>), log |-> <<>>, env |-> <<>>]

Counted(x, r) ==
    [s |-> [r EXCEPT !.log = <<>>],
     int_count |-> [a \in Atomics(M) |-> x.int_count[a] + IntCounted(a, r.log)],
     ext_count |-> [a \in Atomics(M) |-> x.ext_count[a] + ExtCounted(a, r.log)]]

SeqInitialize ==
    [s |-> [CoordInitialize(Root, WithEnv(NewCoordinator, DevstoneEnv(<<>>))) EXCEPT !.log = <<>>],
     int_count |-> [a \in Atomics(M) |-> 0],
     ext_count |-> [a \in Atomics(M) |-> 0]]

SeqInject(x) ==
    LET port == PortArg(MkPort(Root, "i_in"))
        probe == InjectBody(port, Scalar(Object("x")), 0, WithEnv(x.s, DevstoneEnv(<<>>))).s.log
    IN Counted(x, InjectBody(port, Scalar(Object("x")), 0, WithEnv(x.s, DevstoneEnv(probe))).s)

SeqCycle(x) ==
    LET probe == Cycle(Root, WithEnv(x.s, DevstoneEnv(<<>>))).log
    IN Counted(x, Cycle(Root, WithEnv(x.s, DevstoneEnv(probe))))

RECURSIVE SeqLoop(_, _)
SeqLoop(x, n) ==
    IF n < DefaultIters /\ Lt(x.s.clock, INFINITY) THEN SeqLoop(SeqCycle(x), n + 1) ELSE x

SeqSimulate(x) == SeqLoop([x EXCEPT !.s = SetClock(x.s.time_next[Root], x.s)], 0)

SeqTest == SeqSimulate(SeqInject(SeqInitialize))

\* the sum of a counter over the atomics
RECURSIVE SumOver(_, _)
SumOver(f, S) ==
    IF S = {} THEN 0
    ELSE LET a == CHOOSE a \in S : TRUE IN f[a] + SumOver(f, S \ {a})

Total(f) == SumOver(f, DOMAIN f)

\* the width and the depth of the DEVStone model of the run
Depth == Cardinality(Coupleds(M))
Width == Len(M.eic[Root])

----------------------------------------------------------------------------
(* What the claims speak of *)

TransitionOps == {"deltint", "deltext", "deltcon"}

\* the positions of the log where a transition function of an atomic is called
Transitions(l) == {i \in DOMAIN l : l[i].op \in TransitionOps}
TransitionsOf(l, a) == {i \in Transitions(l) : l[i].who = a}

\* the position where the call of Simulator.deltfcn entered at i returns
ReturnOf(l, i) ==
    CHOOSE k \in DOMAIN l :
        /\ k > i
        /\ l[k].op = "Simulator.return"
        /\ \A j \in DOMAIN l : (j > i /\ j < k) => l[j].op # "Simulator.return"

\* a cycle has run in the last step
CycleRan == \E i \in DOMAIN log : log[i].op = "Coordinator.lambdaf" /\ log[i].who = Root

Initialized == pc # "constructed"

\* the ports a value on port p is copied to by the couplings of the model
AllCouplings ==
    UNION {Range(M.eic[c]) \cup Range(M.ic[c]) \cup Range(M.eoc[c]) : c \in Coupleds(M)}

RECURSIVE ReachFrom(_)
ReachFrom(ps) ==
    LET more == ps \cup {cp.port_to : cp \in {x \in AllCouplings : x.port_from \in ps}}
    IN IF more = ps THEN ps ELSE ReachFrom(more)

\* atomic b's outputs are coupled to an input port of atomic a
CoupledTo(b, a) == ReachFrom(OutPorts(M, b)) \cap InPorts(M, a) # {}

----------------------------------------------------------------------------
\* C1: every call of Simulator.deltfcn at clock time t has one of four
\* outcomes, decided by (all input ports empty?, t = time_next?): empty and
\* not due: no transition function, time_last, time_next and sigma unchanged;
\* empty and due: deltint only; input and due: deltcon(e) only; input and not
\* due: deltext(e) only; with e = t - time_last and sigma decreased by e
\* before the call.
C1_DeltfcnRule ==
    \A i \in DOMAIN log :
        log[i].op = "Simulator.deltfcn" =>
            LET en == log[i]
                k == ReturnOf(log, i)
                e == en.t - en.time_last
            IN /\ en.in_empty /\ en.t # en.time_next =>
                    /\ k = i + 1
                    /\ log[k].time_last = en.time_last
                    /\ log[k].time_next = en.time_next
                    /\ log[k].sigma = en.sigma
               /\ en.in_empty /\ en.t = en.time_next =>
                    /\ k = i + 2
                    /\ log[i + 1].op = "deltint" /\ log[i + 1].who = en.who
               /\ ~en.in_empty /\ en.t = en.time_next =>
                    /\ k = i + 2
                    /\ log[i + 1].op = "deltcon" /\ log[i + 1].who = en.who
                    /\ log[i + 1].e = e
                    /\ log[i + 1].sigma = Minus(en.sigma, e)
               /\ ~en.in_empty /\ en.t # en.time_next =>
                    /\ k = i + 2
                    /\ log[i + 1].op = "deltext" /\ log[i + 1].who = en.who
                    /\ log[i + 1].e = e
                    /\ log[i + 1].sigma = Minus(en.sigma, e)

\* an external transition after one time unit, with a finite sigma decreased
C1_Witness ==
    \E i \in DOMAIN log :
        /\ log[i].op = "deltext" /\ log[i].e = 1 /\ log[i].sigma = 1
        /\ \E j \in DOMAIN log : log[j].op = "deltint"

----------------------------------------------------------------------------
\* C2: in a cycle at time t, an atomic a with time_next = t that is sent a
\* value at t by another atomic b, through the couplings of any levels,
\* makes exactly one transition in that cycle, and it is deltcon.
C2_Confluent ==
    [][\A i \in DOMAIN log' :
          (log' # log /\ log'[i].op = "lambdaf" /\ log'[i].emits) =>
              \A a \in Atomics(M) \ {log'[i].who} :
                  (CoupledTo(log'[i].who, a) /\ time_next[a] = log'[i].t) =>
                      /\ Cardinality(TransitionsOf(log', a)) = 1
                      /\ \A j \in TransitionsOf(log', a) : log'[j].op = "deltcon"]_vars

\* B, inside nested coupled models, emits and A, in another one, is confluent
C2_Witness ==
    /\ model = Deep
    /\ \E i, j \in DOMAIN log :
          /\ log[i].op = "lambdaf" /\ log[i].who = "B" /\ log[i].emits
          /\ log[j].op = "deltcon" /\ log[j].who = "A"

\* C3: in every cycle the phases are ordered: every lambdaf of an atomic and
\* every IC and EOC propagation come before any transition function; the
\* root's time_last/time_next update comes after every transition function;
\* no port is cleared before the last transition function; and clock.time is
\* not assigned between the first lambdaf and the last clear.
C3_PhaseOrder ==
    LET T == Transitions(log)
        InCycle(k) == log[k].op \notin {"clock.time", "Port.extend"}
    IN CycleRan =>
        \A i \in DOMAIN log :
            /\ (\/ log[i].op = "lambdaf"
                \/ log[i].op = "Coupling.propagate" /\ log[i].kind \in {"ic", "eoc"})
                  => \A j \in T : i < j
            /\ (log[i].op = "Coordinator.times" /\ log[i].who = Root)
                  => \A j \in T : j < i
            /\ log[i].op = "Port.clear" => \A j \in T : j < i
            /\ log[i].op = "clock.time" =>
                  \/ \A k \in DOMAIN log : InCycle(k) => i < k
                  \/ \A k \in DOMAIN log : InCycle(k) => k < i

\* a cycle of the deepest model with an output, a propagation that carries it
\* and a transition that reads it
C3_Witness ==
    /\ model = Deep
    /\ CycleRan
    /\ \E i, j, k \in DOMAIN log :
          /\ log[i].op = "lambdaf" /\ log[i].emits
          /\ log[j].op = "Coupling.propagate" /\ log[j].kind = "ic"
          /\ log[j].values # <<>>
          /\ log[k].op = "deltext"

\* C4: after initialize and after every deltfcn, the time_next of every
\* coordinator that has a child is the minimum of its children's time_next,
\* INFINITY included.
C4_CoordTimeNextIsMin ==
    Initialized =>
        \A c \in DOMAIN coordinators :
            LET procs == Range(coordinators[c]) \cup Range(simulators[c])
            IN procs # {} =>
                  /\ \A p \in procs : time_next[c] <= time_next[p]
                  /\ \E p \in procs : time_next[c] = time_next[p]

\* after a cycle at a time later than 0, a nested coordinator is passive and
\* the root is not
C4_Witness ==
    /\ model = Deep
    /\ CycleRan
    /\ clock > 0
    /\ time_last["R"] > 0
    /\ time_next["C1"] = INFINITY
    /\ time_next["R"] < INFINITY

\* C5: after initialize and after every call of its deltfcn, also the calls
\* that return early, a simulator has time_next = time_last + sigma.
C5_SimTimeNext ==
    /\ Initialized =>
          \A c \in DOMAIN simulators : \A a \in Range(simulators[c]) :
              time_next[a] = Plus(time_last[a], sigma[a])
    /\ \A i \in DOMAIN log :
          log[i].op = "Simulator.return" =>
              log[i].time_next = Plus(log[i].time_last, log[i].sigma)

\* a cycle in which one simulator returned early and another made an external
\* transition that left it a finite sigma
C5_Witness ==
    \E i, j \in DOMAIN log :
        /\ log[i].op = "Simulator.deltfcn" /\ log[i + 1].op = "Simulator.return"
        /\ log[j].op = "deltext" /\ log[j].e > 0
        /\ sigma[log[j].who] < INFINITY /\ sigma[log[j].who] > 0

\* C6: at every cycle boundary, for every processor,
\* time_last <= clock.time <= time_next.
C6_ClockBetween ==
    Initialized =>
        \A p \in DOMAIN time_last :
            time_last[p] <= clock /\ clock <= time_next[p]

\* after an injection later than the last cycle, with a simulator that did not
\* move since an earlier time and one that is due later than the clock
C6_Witness ==
    /\ call.op = "inject" /\ call.ret = "true" /\ call.args.e > 0
    /\ CycleRan
    /\ \E a, b \in Atomics(M) : time_last[a] < time_last[Root] /\ clock < time_next[b]
    /\ clock < INFINITY

----------------------------------------------------------------------------
(* inject, as its caller sees it *)

\* the step is a call of inject that returned
InjectReturned == pc = "idle" /\ call'.op = "inject" /\ call'.ret # "raised"

\* the port argument is a Port, or a name that ports_to_serve knows
Resolved(port) == ~port.is_str \/ port.name \in DOMAIN ports_to_serve[Root]
Target(port) == IF port.is_str THEN ports_to_serve[Root][port.name] ELSE port.port

\* the values the caller means: the list, or the one value, each decoded when
\* the port is given by name
Sent(args) ==
    LET vs == IF args.values.is_list THEN args.values.v ELSE <<args.values.x>>
    IN IF args.port.is_str THEN [i \in DOMAIN vs |-> Object(vs[i].v)] ELSE vs

IsInjected(v) == v.v \in {"x", "y"}

\* the positions of the log where operation op of the root coordinator starts
RootOps(l, op) == {i \in DOMAIN l : l[i].op = op /\ l[i].who = Root}

\* the clock.time assignments of the last step, each with the value it replaced
ClockAssignments(l) == {i \in DOMAIN l : l[i].op = "clock.time"}

C8_InjectAccepted ==
    [][(/\ InjectReturned
        /\ Resolved(call'.args.port)
        /\ time_last[Root] + call'.args.e <= time_next[Root]) =>
          LET time == time_last[Root] + call'.args.e
              target == Target(call'.args.port)
              vals == Sent(call'.args)
              extends == {i \in DOMAIN log' : log'[i].op = "Port.extend"}
              L == RootOps(log', "Coordinator.lambdaf")
              D == RootOps(log', "Coordinator.deltfcn")
              C == RootOps(log', "Coordinator.clear")
          IN /\ call'.ret = "true"
             /\ Cardinality(extends) = 1
             /\ \A i \in extends : log'[i].who = target /\ log'[i].values = vals
             /\ \A a \in Atomics(M) : \A q \in InPorts(M, a) :
                   q \in ReachFrom({target}) =>
                       \E j \in TransitionsOf(log', a) :
                           SelectSeq(log'[j].inputs[q], IsInjected) = vals
             /\ Cardinality(L) = 1 /\ Cardinality(D) = 1 /\ Cardinality(C) = 1
             /\ \A l \in L, d \in D, c \in C :
                   /\ \A i \in extends : i < l
                   /\ l < d /\ d < c
                   /\ log'[l].t = time /\ log'[d].t = time /\ log'[c].t = time
             /\ clock' = time_next'[Root]]_vars

\* a list of two pickled values injected by name one time unit after the last
\* cycle, read by an external transition
C8_Witness ==
    /\ call.op = "inject" /\ call.ret = "true"
    /\ call.args.port.is_str /\ call.args.values.is_list /\ call.args.e = 1
    /\ \E j \in DOMAIN log :
          /\ log[j].op = "deltext"
          /\ \E q \in DOMAIN log[j].inputs :
                log[j].inputs[q] = <<Object("x"), Object("y")>>
    /\ clock = time_next[Root] /\ clock < INFINITY

\* C9: inject with a resolved port and a finite time_last + e > time_next
\* returns false and changes nothing: the clock, every time_last and
\* time_next, every port buffer and every sigma are as before the call, and
\* no lambdaf and no transition function is called.
C9_InjectRejected ==
    [][(/\ InjectReturned
        /\ Resolved(call'.args.port)
        /\ time_last[Root] + call'.args.e < INFINITY
        /\ time_last[Root] + call'.args.e > time_next[Root]) =>
           /\ call'.ret = "false"
           /\ UNCHANGED <<clock, time_last, time_next, ports, sigma>>
           /\ log' = <<>>]_vars

\* a rejected injection on a served port, given by name
C9_Witness ==
    /\ call.op = "inject" /\ call.ret = "false"
    /\ call.args.port.is_str /\ call.args.e = 1
    /\ time_last[Root] + call.args.e > time_next[Root]
    /\ log = <<>>

\* C10: inject with a port name that is not a key of ports_to_serve returns
\* true for every e, also when time_last + e > time_next, and changes
\* nothing; inject returns false only for a resolved port with a time outside
\* the window.
C10_UnknownPort ==
    [][InjectReturned =>
          /\ ~Resolved(call'.args.port) =>
                /\ call'.ret = "true"
                /\ UNCHANGED <<clock, time_last, time_next, ports, sigma>>
                /\ log' = <<>>
          /\ call'.ret = "false" =>
                /\ Resolved(call'.args.port)
                /\ time_last[Root] + call'.args.e > time_next[Root]]_vars

\* an unknown name with a time outside the window: true is returned
C10_Witness ==
    /\ call.op = "inject" /\ call.ret = "true"
    /\ call.args.port.is_str
    /\ call.args.port.name \notin DOMAIN ports_to_serve[Root]
    /\ time_last[Root] + call.args.e > time_next[Root]
    /\ log = <<>>

----------------------------------------------------------------------------
\* C11: after Coordinator.clear on the root, hence at the end of every cycle
\* of a driver and after every accepted inject, every input and output port
\* of every atomic and coupled model of the tree is empty, and every value a
\* transition function reads was injected or emitted in its own cycle.
C11_PortsCleared ==
    /\ \A p \in AllPorts(M) : ports[p] = <<>>
    /\ \A j \in Transitions(log) : \A q \in DOMAIN log[j].inputs :
          \A k \in DOMAIN log[j].inputs[q] :
              LET v == log[j].inputs[q][k]
              IN \E i \in 1 .. (j - 1) :
                    \/ /\ log[i].op = "Port.extend"
                       /\ \E n \in DOMAIN log[i].values : log[i].values[n] = v
                    \/ log[i].op = "lambdaf" /\ log[i].emits /\ Object(log[i].who) = v

\* a cycle of the deepest model in which a value was injected, an atomic
\* emitted, a coupling carried values, and the root's clear has run
C11_Witness ==
    /\ model = Deep
    /\ \E i \in DOMAIN log : log[i].op = "Port.extend" /\ log[i].values # <<>>
    /\ \E j \in DOMAIN log : log[j].op = "lambdaf" /\ log[j].emits
    /\ \E k \in DOMAIN log : log[k].op = "Coupling.propagate" /\ log[k].values # <<>>
    /\ \E c \in DOMAIN log : log[c].op = "Coordinator.clear" /\ log[c].who = Root
    /\ \A p \in AllPorts(M) : ports[p] = <<>>


\* C12: simulate(num_iters) terminates; it first sets clock.time to the root's time_next, runs
\* a cycle only while cont < num_iters and clock.time < INFINITY, counts each cycle, leaves the
\* loop at once when clock.time is INFINITY, and returns with clock.time = the root's time_next.
C12_SimulateTerminates ==
    /\ [][(pc = "idle" /\ pc' = "simulate") =>
             clock' = time_next[Root] /\ time_next'[Root] = time_next[Root] /\ cont' = 0]_vars
    /\ [][(pc = "simulate" /\ pc' = "simulate.body") =>
             /\ Lt(clock, INFINITY) /\ cont < num_iters
             /\ cont' = cont + 1 /\ cont' <= num_iters
             /\ CycleRan']_vars
    /\ [][(pc = "simulate" /\ clock = INFINITY) => pc' = "returned"]_vars
    /\ [][(pc = "simulate" /\ pc' = "returned") =>
             /\ clock' = time_next'[Root]
             /\ cont = num_iters \/ clock = INFINITY]_vars
    /\ (pc = "simulate") ~> (pc = "returned")

\* simulate(2) has returned after one cycle because the clock reached INFINITY
C12_Witness ==
    /\ pc = "returned" /\ call.op = "simulate"
    /\ num_iters = 2 /\ cont = 1
    /\ clock = INFINITY /\ time_next[Root] = INFINITY


\* C17: after initialize the root's ports_to_serve holds, for every atomic at any depth and every
\* input port of it flagged serve, the key "<atomic>.<port>" mapped to that port, and holds no
\* port that is not flagged serve.
C17_ServeTransitive ==
    Initialized =>
        /\ \A p \in M.serve :
              /\ PortName(p) \in DOMAIN ports_to_serve[Root]
              /\ ports_to_serve[Root][PortName(p)] = p
        /\ \A k \in DOMAIN ports_to_serve[Root] : ports_to_serve[Root][k] \in M.serve


\* the components of the tree that are neither an Atomic nor a Coupled
Foreign(m) == {n \in Nodes(m) : m.kind[n] \notin {"atomic", "coupled"}}

\* C18: when a coupled model of the tree has a component that is neither an Atomic nor a
\* Coupled, Coordinator.initialize fails with an error; it never returns normally with the
\* component left out of the processors.
C18_ForeignComponentFatal ==
    (call.op = "initialize" /\ pc = "returned" /\ Foreign(M) # {}) => call.ret = "raised"

\* C19: Coordinator.ta() is the minimum of the children's time_next minus clock.time when the
\* coordinator has children and 0 when it has none, at every clock.time; an empty coordinator
\* has time_next = time_last = clock.time after initialize and after each deltfcn.  (A
\* coordinator sets its times last in initialize and in deltfcn, after its children, and
\* once a step: the children's time_next it read are those of the state.)
C19_CoordTa ==
    \A i \in DOMAIN log : log[i].op = "Coordinator.times" =>
        LET c == log[i].who
            nexts == {time_next[p] : p \in Range(coordinators[c]) \cup Range(simulators[c])}
        IN /\ log[i].time_last = log[i].t
           /\ IF nexts = {}
              THEN log[i].time_next = Plus(log[i].time_last, 0)
              ELSE \E m \in nexts :
                      /\ \A x \in nexts : Leq(m, x)
                      /\ log[i].time_next = Plus(log[i].time_last, Minus(m, log[i].t))


\* no deltfcn task is waiting in a pool
NoPending == \A a \in DOMAIN pool : pool[a] = 0

\* C13: the test's calls under ParallelCoordinator end, for every interleaving of the workers
\* with the caller, with the time_last and time_next of the root and of every simulator and
\* with the total int_count and ext_count that the same calls leave under Coordinator.
C13_ParallelEquivalence ==
    (cls = "ParallelCoordinator" /\ pc = "done" /\ NoPending) =>
        /\ \A p \in {Root} \cup Atomics(M) :
              /\ time_last[p] = SeqTest.s.time_last[p]
              /\ time_next[p] = SeqTest.s.time_next[p]
        /\ Total(int_count) = Total(SeqTest.int_count)
        /\ Total(ext_count) = Total(SeqTest.ext_count)

\* C14: in ParallelCoordinator every deltfcn task of a coordinator's simulators has run before
\* the coordinator sets time_last and time_next, and no task is waiting when clear runs or when
\* the caller advances clock.time; a task runs only while its own coordinator's deltfcn has
\* yet to set its times.  (No lambdaf is ever submitted: _lambdaf has no caller.)
C14_PhaseJoin ==
    [][cls = "ParallelCoordinator" =>
         /\ (InDeltfcn /\ Head(todo).op = "times" /\ todo' = Tail(todo)) =>
               \A a \in Range(simulators[Head(todo).who]) : pool[a] = 0
         /\ (pc' \in {"inject.clear", "simulate.clear"} /\ pc' # pc) => NoPending
         /\ (pc \in {"inject.clear", "simulate.clear"} /\ pc' # pc) => NoPending
         /\ \A a \in DOMAIN pool : pool'[a] < pool[a] =>
               /\ pc \in {"inject.deltfcn", "simulate.deltfcn"}
               /\ \E i \in DOMAIN todo :
                     todo[i].op = "times" /\ a \in Range(simulators[todo[i].who])]_vars

\* C15: on an LI DEVStone model the calls of the test, Coordinator(root, flatten=False,
\* force_chain=False), initialize, inject on i_in with e = 0, simulate(), run to the end, and
\* then every atomic has made one internal and one external transition: both totals are
\* (w-1)(d-1)+1.
C15_LICounts ==
    (cls = "Coordinator" /\ kwargs = TestKwargs /\ M.name = "LI" /\ pc \in {"raised", "done"}) =>
        /\ pc = "done"
        /\ \A a \in Atomics(M) : int_count[a] = 1 /\ ext_count[a] = 1
        /\ Total(int_count) = (Width - 1) * (Depth - 1) + 1
        /\ Total(ext_count) = (Width - 1) * (Depth - 1) + 1

\* C16: on an HI DEVStone model, after initialize, inject on i_in with e = 0 and simulate()
\* on a Coordinator, the total int_count and the total ext_count are ((w-1)w/2)(d-1)+1, a
\* confluent transition counting once in each.
C16_HICounts ==
    (cls = "Coordinator" /\ kwargs = NoKwargs /\ M.name = "HI" /\ pc = "done") =>
        /\ Total(int_count) = (((Width - 1) * Width) \div 2) * (Depth - 1) + 1
        /\ Total(ext_count) = (((Width - 1) * Width) \div 2) * (Depth - 1) + 1

\* the run on HI of width 3 and depth 2 has ended: the second atomic of the chain made an
\* external transition and then a confluent one
C16_Witness ==
    /\ cls = "Coordinator" /\ kwargs = NoKwargs /\ M.name = "HI" /\ pc = "done"
    /\ Width = 3 /\ Depth = 2
    /\ int_count[AtomicName(2, 2)] = 2 /\ ext_count[AtomicName(2, 2)] = 2
    /\ int_count[AtomicName(2, 1)] = 1 /\ ext_count[AtomicName(2, 1)] = 1

\* C20: a ParallelProcessCoordinator is constructed, and when its master's deltfcn has
\* returned no task is waiting and every coordinator's time_next is the least time_next of
\* its children.
C20_ProcessJoin ==
    (cls = "ParallelProcessCoordinator" /\ pc # "start") =>
        /\ pc # "raised" /\ call.ret # "raised"
        /\ pc \in {"inject.clear", "simulate.clear"} =>
              /\ NoPending
              /\ \A c \in DOMAIN coordinators :
                    \A p \in Range(coordinators[c]) \cup Range(simulators[c]) :
                        Leq(time_next[c], time_next[p])


\* the positions of the log where the output function of atomic a is called
LambdafsOf(l, a) == {i \in DOMAIN l : l[i].op = "lambdaf" /\ l[i].who = a}

\* C21: in a cycle of a sequential Coordinator tree the output function of an atomic is called
\* only when clock.time equals the atomic's time_next, and at most once; a cycle that calls it
\* calls, after it, exactly one transition function of that atomic, deltint or deltcon; and a
\* deltint or deltcon of an atomic comes only after the atomic's lambdaf of the same cycle.
C21_OutputThenTransition ==
    [][(log' # log /\ CycleRan') =>
          \A a \in Atomics(M) :
              LET L == LambdafsOf(log', a)
                  T == TransitionsOf(log', a)
              IN /\ Cardinality(L) <= 1
                 /\ \A i \in L : Eq(log'[i].t, time_next[a])
                 /\ L # {} =>
                       /\ Cardinality(T) = 1
                       /\ \A j \in T : /\ log'[j].op \in {"deltint", "deltcon"}
                                       /\ \A i \in L : i < j /\ log'[j].t = log'[i].t
                 /\ \A j \in T : log'[j].op \in {"deltint", "deltcon"} =>
                       \E i \in L : i < j]_vars

\* one cycle in which an atomic that is due makes its output and a confluent transition, and
\* another one, not due, an external transition with no output
C21_Witness ==
    /\ CycleRan
    /\ \E a \in Atomics(M) :
          /\ LambdafsOf(log, a) # {}
          /\ \E j \in TransitionsOf(log, a) : log[j].op = "deltcon"
    /\ \E b \in Atomics(M) :
          /\ LambdafsOf(log, b) = {}
          /\ \E j \in TransitionsOf(log, b) : log[j].op = "deltext"


\* the couplings of the model, each named by its kind, its coupled model and its position
CouplingIds ==
    UNION {({"eic"} \X {c} \X DOMAIN M.eic[c]) \cup ({"ic"} \X {c} \X DOMAIN M.ic[c])
           \cup ({"eoc"} \X {c} \X DOMAIN M.eoc[c]) : c \in Coupleds(M)}

CouplingAt(x) ==
    IF x[1] = "eic" THEN M.eic[x[2]][x[3]]
    ELSE IF x[1] = "ic" THEN M.ic[x[2]][x[3]]
    ELSE M.eoc[x[2]][x[3]]

\* the number of coupling paths from port p to port q
RECURSIVE NumPaths(_, _)
NumPaths(p, q) ==
    IF p = q THEN 1
    ELSE LET next == {x \in CouplingIds : CouplingAt(x).port_from = p}
         IN SumOver([x \in next |-> NumPaths(CouplingAt(x).port_to, q)], next)

\* atomic b has made an output in the cycle of log l
Emitted(l, b) == \E i \in LambdafsOf(l, b) : l[i].emits

\* how often the output of atomic b is due on port q in the cycle of log l
Due(l, b, q) ==
    IF Emitted(l, b)
    THEN SumOver([p \in OutPorts(M, b) |-> NumPaths(p, q)], OutPorts(M, b))
    ELSE 0

\* how often value v is in the sequence vs
Count(v, vs) == Cardinality({k \in DOMAIN vs : vs[k] = v})

\* C22: in a cycle of a non-chain sequential Coordinator tree, the value an atomic b puts on its
\* output ports is seen by the transition function of every atomic a, on every input port q of
\* a, once for each coupling path from an output port of b to q, in that same cycle: when there
\* is such a path, a makes exactly one transition, deltext or deltcon, after b's lambdaf; and
\* the inputs of a transition hold no output of an atomic that has not emitted in the cycle.
C22_DeliveredOncePerPath ==
    CycleRan =>
        \A a, b \in Atomics(M) : \A q \in InPorts(M, a) :
            /\ Due(log, b, q) > 0 =>
                  /\ Cardinality(TransitionsOf(log, a)) = 1
                  /\ \A j \in TransitionsOf(log, a) :
                        /\ log[j].op \in {"deltext", "deltcon"}
                        /\ \A i \in LambdafsOf(log, b) : i < j
            /\ \A j \in TransitionsOf(log, a) :
                  Count(Object(b), log[j].inputs[q]) = Due(log, b, q)

\* a cycle in which A, inside one coupled model, emits and B, inside another one, makes its
\* transition with A's value twice on its input port, once for each of the two coupling paths
C22_Witness ==
    /\ model = Braid
    /\ CycleRan
    /\ Emitted(log, "A")
    /\ NumPaths(MkPort("A", "o"), MkPort("B", "i")) = 2
    /\ \E j \in TransitionsOf(log, "B") :
          log[j].inputs[MkPort("B", "i")] = <<Object("A"), Object("A")>>

====
